---- MODULE Spec2Model ----
(***************************************************************************)
(* A model of html-compare: the word splitter (src/src/word-splitter.ts),   *)
(* the block matcher (src/src/match.ts) and the HtmlDiff pipeline           *)
(* (src/src/index.ts): matchingBlocks, RemoveOrphans, operations and the    *)
(* renderer (performOperation / InsertTag).                                 *)
(*                                                                         *)
(* A JavaScript string is modelled as a sequence of one-character strings,  *)
(* so "cat" is <<"c","a","t">>; string[] is a sequence of such sequences.   *)
(* Indices of the source are 0-based and kept 0-based in the model; only    *)
(* the access to a TLA+ sequence adds one.                                  *)
(***************************************************************************)
EXTENDS Integers, Sequences, FiniteSets, TLC

\* ------------------------------------------------------------------------
\* Strings
\* ------------------------------------------------------------------------

\* s.slice(from, to) on a string or an array, 0-based, to exclusive.
Slice(s, from, to) == SubSeq(s, from + 1, to)

\* s.startsWith(p)
StartsWith(s, p) == Len(s) >= Len(p) /\ SubSeq(s, 1, Len(p)) = p

\* p occurs in s at 0-based position i
OccursAt(s, p, i) == i + Len(p) <= Len(s) /\ SubSeq(s, i + 1, i + Len(p)) = p

\* words.join("")
RECURSIVE Join(_)
Join(ws) == IF ws = <<>> THEN <<>> ELSE Head(ws) \o Join(Tail(ws))

\* sum of the lengths of words[from .. to-1] (0-based), the reduce() of RemoveOrphans
RECURSIVE SumLen(_, _, _)
SumLen(ws, from, to) ==
    IF from >= to THEN 0 ELSE Len(ws[from + 1]) + SumLen(ws, from + 1, to)

Min(a, b) == IF a < b THEN a ELSE b
Max(a, b) == IF a > b THEN a ELSE b

UpperCase == <<"A","B","C","D","E","F","G","H","I","J","K","L","M",
               "N","O","P","Q","R","S","T","U","V","W","X","Y","Z">>
LowerCase == <<"a","b","c","d","e","f","g","h","i","j","k","l","m",
               "n","o","p","q","r","s","t","u","v","w","x","y","z">>
Digits == {"0","1","2","3","4","5","6","7","8","9"}

\* c.toLowerCase() for one character
LowerChar(c) ==
    IF \E k \in 1..26 : UpperCase[k] = c
    THEN LowerCase[CHOOSE k \in 1..26 : UpperCase[k] = c]
    ELSE c

ToLowerCase(s) == [k \in 1..Len(s) |-> LowerChar(s[k])]

\* the characters \s matches (those the model's inputs use)
WhitespaceChars == {" ", "\t", "\n", "\r"}

\* the characters [\w#@] matches
WordChars == {UpperCase[k] : k \in 1..26} \cup {LowerCase[k] : k \in 1..26}
             \cup Digits \cup {"_", "#", "@"}

\* ------------------------------------------------------------------------
\* utils.ts
\* ------------------------------------------------------------------------

Nbsp == <<"&","n","b","s","p",";">>

\* s without its leading / trailing run of \s characters
RECURSIVE StripLeadingWs(_)
StripLeadingWs(s) ==
    IF s # <<>> /\ s[1] \in WhitespaceChars THEN StripLeadingWs(Tail(s)) ELSE s
RECURSIVE StripTrailingWs(_)
StripTrailingWs(s) ==
    IF s # <<>> /\ s[Len(s)] \in WhitespaceChars
    THEN StripTrailingWs(SubSeq(s, 1, Len(s) - 1)) ELSE s

\* OPENING_TAG_REGEX = /^\s*<[^>]+>\s*$/
isOpeningTag(item) ==
    LET core == StripTrailingWs(StripLeadingWs(item)) IN
    /\ Len(core) >= 3
    /\ core[1] = "<"
    /\ core[Len(core)] = ">"
    /\ \A k \in 2..(Len(core) - 1) : core[k] # ">"

\* CLOSING_TAG_TEX_REGEX = /^\s*<\/[^>]+>\s*$/
isClosingTag(item) ==
    LET core == StripTrailingWs(StripLeadingWs(item)) IN
    /\ Len(core) >= 4
    /\ core[1] = "<"
    /\ core[2] = "/"
    /\ core[Len(core)] = ">"
    /\ \A k \in 3..(Len(core) - 1) : core[k] # ">"

SPECIAL_CASE_WORD_TAGS == {<<"<","i","m","g">>}

isTag(item) ==
    IF \E re \in SPECIAL_CASE_WORD_TAGS : StartsWith(item, re)
    THEN FALSE
    ELSE isOpeningTag(item) \/ isClosingTag(item)

SpecialCaseTagNames ==
    { <<"s","t","r","o","n","g">>, <<"b">>, <<"i">>, <<"e","m">>, <<"b","i","g">>,
      <<"s","m","a","l","l">>, <<"u">>, <<"s","u","b">>, <<"s","u","p">>,
      <<"s","t","r","i","k","e">>, <<"s">>, <<"s","p","a","n">> }

\* SPECIAL_CASE_OPENING_TAG_REGEX.test(word):
\* /<((strong)|(b)|...|(span))[\>\s]+/i, searched anywhere in the word
SPECIAL_CASE_OPENING_TAG_REGEX(word) ==
    LET low == ToLowerCase(word) IN
    \E p \in 0..(Len(word) - 1) : \E n \in SpecialCaseTagNames :
        /\ OccursAt(low, <<"<">> \o n, p)
        /\ p + 1 + Len(n) + 1 <= Len(word)
        /\ word[p + 1 + Len(n) + 1] \in ({">"} \cup WhitespaceChars)

\* SPECIAL_CASE_CLOSING_TAGS.hasOwnProperty(word)
SPECIAL_CASE_CLOSING_TAGS(word) ==
    \E n \in SpecialCaseTagNames : word = <<"<", "/">> \o n \o <<">">>

\* TAG_WORD_REGEX = /<[^\s>]+/ : the first match in word, or "" when none
TagWordMatch(word) ==
    LET starts == { p \in 1..Len(word) :
                      /\ word[p] = "<"
                      /\ p + 1 <= Len(word)
                      /\ word[p + 1] \notin (WhitespaceChars \cup {">"}) }
    IN IF starts = {} THEN <<>>
       ELSE LET p == CHOOSE q \in starts : \A r \in starts : q <= r
                stops == { e \in (p + 1)..Len(word) :
                             word[e] \in (WhitespaceChars \cup {">"}) }
                last == IF stops = {} THEN Len(word)
                        ELSE (CHOOSE e \in stops : \A f \in stops : e <= f) - 1
            IN SubSeq(word, p, last)

stripTagAttributes(word) ==
    LET tag == TagWordMatch(word)
        endsSelfClosed == Len(word) >= 2 /\ SubSeq(word, Len(word) - 1, Len(word)) = <<"/", ">">>
    IN tag \o (IF endsSelfClosed THEN <<"/", ">">> ELSE <<">">>)

stripAttributes(word) == IF isTag(word) THEN stripTagAttributes(word) ELSE word

\* `<${tagName} class='${cssClass}'>${text}</${tagName}>`
wrapText(text, tagName, cssClass) ==
    <<"<">> \o tagName \o <<" ","c","l","a","s","s","=","'">> \o cssClass \o <<"'",">">>
    \o text \o <<"<","/">> \o tagName \o <<">">>

isStartOfTag(val) == val = "<"
isEndOfTag(val) == val = ">"
isStartOfEntity(val) == val = "&"
isEndOfEntity(val) == val = ";"

\* WHITESPACE_REGEX = /^(?:\s|&nbsp;)+$/
RECURSIVE AllWhitespaceUnits(_)
AllWhitespaceUnits(s) ==
    \/ s = <<>>
    \/ s[1] \in WhitespaceChars /\ AllWhitespaceUnits(Tail(s))
    \/ StartsWith(s, Nbsp) /\ AllWhitespaceUnits(SubSeq(s, Len(Nbsp) + 1, Len(s)))

isWhiteSpace(value) == value # <<>> /\ AllWhitespaceUnits(value)

\* WORD_REGEX = /[\w#@]+/ tested on one character
isWord(text) == text \in WordChars

\* TAG_REGEX = /<\/?(?<name>[^\s/>]+)[^>]*>/ : the lower-cased name of the first
\* match, "" when the word is empty or holds no match
getTagName(word) ==
    LET NameStart(p) == IF p + 1 <= Len(word) /\ word[p + 1] = "/" THEN p + 2 ELSE p + 1
        NameStops(p) == { e \in NameStart(p)..Len(word) :
                            word[e] \in (WhitespaceChars \cup {"/", ">"}) }
        NameEnd(p) == IF NameStops(p) = {} THEN Len(word) + 1
                      ELSE CHOOSE e \in NameStops(p) : \A f \in NameStops(p) : e <= f
        Matches(p) == /\ word[p] = "<"
                      /\ NameEnd(p) > NameStart(p)
                      /\ \E g \in NameEnd(p)..Len(word) : word[g] = ">"
        starts == { p \in 1..Len(word) : Matches(p) }
    IN IF starts = {} THEN <<>>
       ELSE LET p == CHOOSE q \in starts : \A r \in starts : q <= r
            IN ToLowerCase(SubSeq(word, NameStart(p), NameEnd(p) - 1))

\* ------------------------------------------------------------------------
\* word-splitter.ts
\* ------------------------------------------------------------------------

\* WordSplitter.NotGlobbing
NotGlobbing == -1

\* text.matchAll(exp) for a global expression that matches the literal,
\* non-empty string exp: the 0-based start of every match, left to right,
\* the search resuming at the end of the previous match.
RECURSIVE MatchAllFrom(_, _, _)
MatchAllFrom(text, exp, pos) ==
    IF pos + Len(exp) > Len(text) THEN <<>>
    ELSE IF OccursAt(text, exp, pos)
         THEN <<pos>> \o MatchAllFrom(text, exp, pos + Len(exp))
         ELSE MatchAllFrom(text, exp, pos + 1)

MatchAll(text, exp) == MatchAllFrom(text, exp, 0)

\* Map.prototype.set(from, to): adds or overwrites the entry and never throws.
MapSet(result, from, to) ==
    [threw |-> FALSE,
     map |-> [k \in (DOMAIN result) \cup {from} |-> IF k = from THEN to ELSE result[k]]]

\* processBlockMatcher: result.set(from, to) for every match, in a try whose
\* catch rethrows the "overlaps" error.
RECURSIVE SetMatches(_, _, _, _)
SetMatches(starts, k, len, acc) ==
    IF acc.threw \/ k > Len(starts) THEN acc
    ELSE SetMatches(starts, k + 1, len, MapSet(acc.map, starts[k], starts[k] + len))

processBlockMatcher(text, exp, result) ==
    SetMatches(MatchAll(text, exp), 1, Len(exp), [threw |-> FALSE, map |-> result])

\* findBlocksToBeGrouped: one processBlockMatcher per expression, in order.
RECURSIVE BlocksFrom(_, _, _, _)
BlocksFrom(text, blockExpressions, k, acc) ==
    IF acc.threw \/ k > Len(blockExpressions) THEN acc
    ELSE BlocksFrom(text, blockExpressions, k + 1,
                    processBlockMatcher(text, blockExpressions[k], acc.map))

findBlocksToBeGrouped(text, blockExpressions) ==
    BlocksFrom(text, blockExpressions, 1, [threw |-> FALSE, map |-> <<>>])

\* The fields of a WordSplitter after its constructor.
NewSplitter(text, blockLocations) ==
    [text |-> text,
     blockLocations |-> blockLocations,
     isBlockCheckRequired |-> (DOMAIN blockLocations) # {},
     mode |-> "Character",
     isGrouping |-> FALSE,
     globbingUntil |-> NotGlobbing,
     currentWord |-> <<>>,
     words |-> <<>>]

\* the current word pushed without the test of its length
appendCurrentWordToWords_unguarded(sp) ==
    [sp EXCEPT !.words = Append(sp.words, sp.currentWord), !.currentWord = <<>>]

appendCurrentWordToWords(sp) ==
    IF Len(sp.currentWord) > 0
    THEN [sp EXCEPT !.words = Append(sp.words, sp.currentWord), !.currentWord = <<>>]
    ELSE sp

\* flush the current word, start a new one with the character, switch mode
FlushPushMode(sp, character, mode) ==
    LET f == appendCurrentWordToWords(sp) IN
    [f EXCEPT !.currentWord = Append(f.currentWord, character), !.mode = mode]

processTextCharacter(sp, character) ==
    IF isStartOfTag(character) THEN FlushPushMode(sp, "<", "Tag")
    ELSE IF isStartOfEntity(character) THEN FlushPushMode(sp, character, "Entity")
    ELSE IF character \in WhitespaceChars THEN FlushPushMode(sp, character, "Whitespace")
    ELSE IF /\ isWord(character)
            /\ (Len(sp.currentWord) = 0 \/ isWord(sp.currentWord[Len(sp.currentWord)]))
         THEN [sp EXCEPT !.currentWord = Append(sp.currentWord, character)]
    ELSE FlushPushMode(sp, character, sp.mode)

processHtmlTagContinuation(sp, character) ==
    IF isEndOfTag(character)
    THEN LET f == appendCurrentWordToWords(
                    [sp EXCEPT !.currentWord = Append(sp.currentWord, character)])
         IN [f EXCEPT !.mode = IF isWhiteSpace(<<character>>) THEN "Whitespace"
                                ELSE "Character"]
    ELSE [sp EXCEPT !.currentWord = Append(sp.currentWord, character)]

processWhiteSpaceContinuation(sp, character) ==
    IF isStartOfTag(character) THEN FlushPushMode(sp, character, "Tag")
    ELSE IF isStartOfEntity(character) THEN FlushPushMode(sp, character, "Entity")
    ELSE IF character \in WhitespaceChars
         THEN [sp EXCEPT !.currentWord = Append(sp.currentWord, character)]
    ELSE FlushPushMode(sp, character, "Character")

processEntityContinuation(sp, character) ==
    IF isStartOfTag(character) THEN FlushPushMode(sp, character, "Tag")
    ELSE IF character \in WhitespaceChars THEN FlushPushMode(sp, character, "Whitespace")
    ELSE IF isEndOfEntity(character)
         THEN IF Len(sp.currentWord) > 0
              THEN LET cw == Append(sp.currentWord, character)
                       ws == Append(sp.words, cw)
                       n == Len(ws)
                   IN IF n > 2 /\ isWhiteSpace(ws[n - 1]) /\ isWhiteSpace(ws[n])
                      THEN \* join the entity with the last whitespace
                           [sp EXCEPT !.words = SubSeq(ws, 1, n - 2),
                                      !.currentWord = ws[n - 1] \o ws[n],
                                      !.mode = "Whitespace"]
                      ELSE [sp EXCEPT !.words = ws, !.currentWord = <<>>,
                                      !.mode = "Character"]
              ELSE [sp EXCEPT !.currentWord = <<>>, !.mode = "Character"]
    ELSE IF isWord(character)
         THEN [sp EXCEPT !.currentWord = Append(sp.currentWord, character)]
    ELSE FlushPushMode(sp, character, "Character")

\* isGlobbing(index, character): the splitter after the call; the value it
\* returns is the isGrouping field of that splitter (false when no block
\* check is required, where nothing changes).
isGlobbing(sp, index, character) ==
    IF ~sp.isBlockCheckRequired THEN sp
    ELSE LET a == IF index = sp.globbingUntil
                  THEN appendCurrentWordToWords(
                         [sp EXCEPT !.globbingUntil = NotGlobbing, !.isGrouping = FALSE])
                  ELSE sp
             b == IF index \in DOMAIN a.blockLocations
                  THEN [a EXCEPT !.isGrouping = TRUE,
                                 !.globbingUntil = a.blockLocations[index]]
                  ELSE a
         IN IF b.isGrouping
            THEN [b EXCEPT !.currentWord = Append(b.currentWord, character),
                           !.mode = "Character"]
            ELSE b

processCharacter(sp, index, character) ==
    LET g == isGlobbing(sp, index, character) IN
    IF g.isBlockCheckRequired /\ g.isGrouping THEN g
    ELSE CASE g.mode = "Character" -> processTextCharacter(g, character)
           [] g.mode = "Tag" -> processHtmlTagContinuation(g, character)
           [] g.mode = "Whitespace" -> processWhiteSpaceContinuation(g, character)
           [] g.mode = "Entity" -> processEntityContinuation(g, character)

\* process(): every character in order, then the final flush; the words.
RECURSIVE ProcessFrom(_, _)
ProcessFrom(sp, index) ==
    IF index < Len(sp.text)
    THEN ProcessFrom(processCharacter(sp, index, sp.text[index + 1]), index + 1)
    ELSE appendCurrentWordToWords(sp)

process(sp) == ProcessFrom(sp, 0).words

\* ------------------------------------------------------------------------
\* match.ts
\* ------------------------------------------------------------------------

\* A number in [0,1] given as a fraction: x = num / den, den > 0.
Frac(num, den) == [num |-> num, den |-> den]

\* n > m * x for integers n, m and the fraction x
GreaterThanTimes(n, m, x) == n * x.den > m * x.num

\* new Match(startInOld, startInNew, size), with its endInOld / endInNew getters
Match(startInOld, startInNew, size) ==
    [startInOld |-> startInOld, endInOld |-> startInOld + size,
     startInNew |-> startInNew, endInNew |-> startInNew + size,
     size |-> size]

\* the null a match finder returns when it finds nothing
NoMatch == [size |-> -1]

\* new MatchFinder(oldWords, newWords, startInOld, endInOld, startInNew, endInNew, options)
MatchFinder(ow, nw, startInOld, endInOld, startInNew, endInNew, options) ==
    [oldWords |-> ow, newWords |-> nw,
     startInOld |-> startInOld, endInOld |-> endInOld,
     startInNew |-> startInNew, endInNew |-> endInNew,
     options |-> options]

\* normalizeForIndexing, after word = stripAttributes(word)
NormalizeStripped(options, w) ==
    IF options.ignoreWhitespaceDifferences /\ isWhiteSpace(w) THEN <<" ">> ELSE w

normalizeForIndexing(options, word) == NormalizeStripped(options, stripAttributes(word))

\* putNewWord, after block.push(word) and the shift: the block it leaves and the
\* key it returns (none: null)
PutResult(b, blockSize) ==
    [block |-> b,
     key |-> IF Len(b) # blockSize THEN [none |-> TRUE]
             ELSE [none |-> FALSE, text |-> Join(b)]]

\* block.push(word); if (block.length > blockSize) block.shift()
PushShift(pushed, blockSize) == IF Len(pushed) > blockSize THEN Tail(pushed) ELSE pushed

putNewWord(block, word, blockSize) ==
    PutResult(PushShift(Append(block, word), blockSize), blockSize)

\* indices.push(i); this._wordIndices.set(key, indices)
IndexAdd(wordIndices, key, i) ==
    [k \in (DOMAIN wordIndices) \cup {key} |->
       IF k = key
       THEN Append(IF key \in DOMAIN wordIndices THEN wordIndices[key] ELSE <<>>, i)
       ELSE wordIndices[k]]

\* indexNewWords: key -> the new indices (ascending) whose window ends there
RECURSIVE IndexFrom(_, _, _, _)
IndexPut(f, i, put, wordIndices) ==
    IF put.key.none THEN IndexFrom(f, i + 1, put.block, wordIndices)
    ELSE IndexFrom(f, i + 1, put.block, IndexAdd(wordIndices, put.key.text, i))

IndexFrom(f, i, block, wordIndices) ==
    IF i >= f.endInNew THEN wordIndices
    ELSE IndexPut(f, i,
                  putNewWord(block, normalizeForIndexing(f.options, f.newWords[i + 1]),
                             f.options.blockSize),
                  wordIndices)

indexNewWords(f) == IndexFrom(f, f.startInNew, <<>>, <<>>)

\* removeRepeatingWords: const threshold = this._newWords.length * repeatingWordsAccuracy;
\* whether a key with that many indices is filtered out: indices.length > threshold
IsRepeating(f, count) ==
    GreaterThanTimes(count, Len(f.newWords), f.options.repeatingWordsAccuracy)

\* removeRepeatingWords: the index without the repeating keys
removeRepeatingWords(f, wordIndices) ==
    [key \in { k \in DOMAIN wordIndices : ~IsRepeating(f, Len(wordIndices[k])) } |->
       wordIndices[key]]

\* Object.assign(target, source)
ObjectAssign(target, source) ==
    [k \in (DOMAIN target) \cup (DOMAIN source) |->
       IF k \in DOMAIN source THEN source[k] ELSE target[k]]

\* findMatch: Object.assign(matchLengthAt, newMatchLengthAt), the carry of
\* matchLengthAt from one old window to the next
CarryMatchLengthAt(matchLengthAt, newMatchLengthAt) ==
    ObjectAssign(matchLengthAt, newMatchLengthAt)

\* findMatch: (matchLengthAt[indexInNew - 1] !== undefined ? ... : 0) + 1
NewMatchLength(matchLengthAt, indexInNew) ==
    (IF (indexInNew - 1) \in DOMAIN matchLengthAt
     THEN matchLengthAt[indexInNew - 1] ELSE 0) + 1

\* findMatch: bestMatchInOld / bestMatchInNew of a run of newMatchLength windows
\* of blockSize words whose last window ends at index
BestStart(index, newMatchLength, blockSize) ==
    index - newMatchLength + 1 - blockSize + 1

\* findMatch: the body of the loop over the new indices of a key, for one
\* indexInNew with its newMatchLength
ScanOne(f, indexInOld, indexInNew, newMatchLength, st) ==
    [newMatchLengthAt |->
        [j \in (DOMAIN st.newMatchLengthAt) \cup {indexInNew} |->
           IF j = indexInNew THEN newMatchLength ELSE st.newMatchLengthAt[j]],
     bestMatchInOld |-> IF newMatchLength > st.bestMatchSize
         THEN BestStart(indexInOld, newMatchLength, f.options.blockSize)
         ELSE st.bestMatchInOld,
     bestMatchInNew |-> IF newMatchLength > st.bestMatchSize
         THEN BestStart(indexInNew, newMatchLength, f.options.blockSize)
         ELSE st.bestMatchInNew,
     bestMatchSize |-> IF newMatchLength > st.bestMatchSize THEN newMatchLength
                       ELSE st.bestMatchSize]

\* findMatch: the loop over this._wordIndices.get(index); st holds
\* newMatchLengthAt and the best match so far
RECURSIVE ScanNewIndices(_, _, _, _, _, _)
ScanNewIndices(f, indices, k, indexInOld, matchLengthAt, st) ==
    IF k > Len(indices) THEN st
    ELSE ScanNewIndices(f, indices, k + 1, indexInOld, matchLengthAt,
           ScanOne(f, indexInOld, indices[k],
                   NewMatchLength(matchLengthAt, indices[k]), st))

\* findMatch: the state after the loop body of an indexed key, r the result of
\* the loop over its new indices
AfterScan(block, matchLengthAt, r) ==
    [block |-> block,
     matchLengthAt |-> CarryMatchLengthAt(matchLengthAt, r.newMatchLengthAt),
     bestMatchInOld |-> r.bestMatchInOld,
     bestMatchInNew |-> r.bestMatchInNew,
     bestMatchSize |-> r.bestMatchSize]

\* findMatch: the loop body for one old index, put the result of putNewWord
ScanOldPut(f, wordIndices, indexInOld, st, put) ==
    IF put.key.none THEN [st EXCEPT !.block = put.block]
    ELSE IF put.key.text \notin DOMAIN wordIndices
    THEN [st EXCEPT !.block = put.block,
                    !.matchLengthAt = CarryMatchLengthAt(st.matchLengthAt, <<>>)]
    ELSE AfterScan(put.block, st.matchLengthAt,
           ScanNewIndices(f, wordIndices[put.key.text], 1, indexInOld, st.matchLengthAt,
                          [newMatchLengthAt |-> <<>>,
                           bestMatchInOld |-> st.bestMatchInOld,
                           bestMatchInNew |-> st.bestMatchInNew,
                           bestMatchSize |-> st.bestMatchSize]))

\* findMatch: the loop over the old range; st holds block, matchLengthAt and the best
RECURSIVE ScanOld(_, _, _, _)
ScanOld(f, wordIndices, indexInOld, st) ==
    IF indexInOld >= f.endInOld THEN st
    ELSE ScanOld(f, wordIndices, indexInOld + 1,
           ScanOldPut(f, wordIndices, indexInOld, st,
             putNewWord(st.block,
                        normalizeForIndexing(f.options, f.oldWords[indexInOld + 1]),
                        f.options.blockSize)))

\* findMatch: the return
BestMatch(f, r) ==
    IF r.bestMatchSize # 0
    THEN Match(r.bestMatchInOld, r.bestMatchInNew,
               r.bestMatchSize + f.options.blockSize - 1)
    ELSE NoMatch

\* findMatch: after indexNewWords() and removeRepeatingWords()
FindMatchIndexed(f, wordIndices) ==
    IF DOMAIN wordIndices = {} THEN NoMatch
    ELSE BestMatch(f, ScanOld(f, wordIndices, f.startInOld,
                     [block |-> <<>>, matchLengthAt |-> <<>>,
                      bestMatchInOld |-> f.startInOld,
                      bestMatchInNew |-> f.startInNew,
                      bestMatchSize |-> 0]))

\* MatchFinder.findMatch()
FinderFindMatch(f) == FindMatchIndexed(f, removeRepeatingWords(f, indexNewWords(f)))

\* ------------------------------------------------------------------------
\* index.ts: HtmlDiff, the matcher side
\* ------------------------------------------------------------------------

\* HtmlDiff.MAX_MATCH_GRANULARITY
MAX_MATCH_GRANULARITY == 4

\* The fields of an HtmlDiff that matching reads (d, "this").
Differ(ow, nw, granularity, accuracy, ignoreWs, orphanThreshold) ==
    [oldWords |-> ow, newWords |-> nw, matchGranularity |-> granularity,
     repeatingWordsAccuracy |-> accuracy, ignoreWhitespaceDifferences |-> ignoreWs,
     orphanMatchThreshold |-> orphanThreshold]

\* build(): Math.min(MAX_MATCH_GRANULARITY, oldWords.length, newWords.length)
Granularity(ow, nw) == Min(MAX_MATCH_GRANULARITY, Min(Len(ow), Len(nw)))

\* HtmlDiff.findMatch: the options of the finder for block size i
FinderOptions(d, i) ==
    [blockSize |-> i,
     repeatingWordsAccuracy |-> d.repeatingWordsAccuracy,
     ignoreWhitespaceDifferences |-> d.ignoreWhitespaceDifferences]

\* HtmlDiff.findMatch: block sizes i = matchGranularity down to 1, the first match
RECURSIVE FindMatchFrom(_, _, _, _, _, _)
FirstMatch(match, d, i, startInOld, endInOld, startInNew, endInNew) ==
    IF match # NoMatch THEN match
    ELSE FindMatchFrom(d, i - 1, startInOld, endInOld, startInNew, endInNew)

FindMatchFrom(d, i, startInOld, endInOld, startInNew, endInNew) ==
    IF i <= 0 THEN NoMatch
    ELSE FirstMatch(FinderFindMatch(MatchFinder(d.oldWords, d.newWords, startInOld,
                                                endInOld, startInNew, endInNew,
                                                FinderOptions(d, i))),
                    d, i, startInOld, endInOld, startInNew, endInNew)

findMatch(d, startInOld, endInOld, startInNew, endInNew) ==
    FindMatchFrom(d, d.matchGranularity, startInOld, endInOld, startInNew, endInNew)

RECURSIVE findMatchingBlocks(_, _, _, _, _)

\* the match pushed before the matches of the range before it
BlocksAround_matchFirst(d, match, startInOld, endInOld, startInNew, endInNew) ==
    IF match = NoMatch THEN <<>>
    ELSE <<match>>
         \o (IF startInOld < match.startInOld /\ startInNew < match.startInNew
             THEN findMatchingBlocks(d, startInOld, match.startInOld,
                                     startInNew, match.startInNew)
             ELSE <<>>)
         \o (IF match.endInOld < endInOld /\ match.endInNew < endInNew
             THEN findMatchingBlocks(d, match.endInOld, endInOld,
                                     match.endInNew, endInNew)
             ELSE <<>>)

\* findMatchingBlocks: the matches it pushes, in order: those of the range before
\* the match, the match, those of the range after it
BlocksAround(d, match, startInOld, endInOld, startInNew, endInNew) ==
    IF match = NoMatch THEN <<>>
    ELSE (IF startInOld < match.startInOld /\ startInNew < match.startInNew
          THEN findMatchingBlocks(d, startInOld, match.startInOld,
                                  startInNew, match.startInNew)
          ELSE <<>>)
         \o <<match>>
         \o (IF match.endInOld < endInOld /\ match.endInNew < endInNew
             THEN findMatchingBlocks(d, match.endInOld, endInOld,
                                     match.endInNew, endInNew)
             ELSE <<>>)

findMatchingBlocks(d, startInOld, endInOld, startInNew, endInNew) ==
    BlocksAround(d, findMatch(d, startInOld, endInOld, startInNew, endInNew),
                 startInOld, endInOld, startInNew, endInNew)

matchingBlocks(d) == findMatchingBlocks(d, 0, Len(d.oldWords), 0, Len(d.newWords))

\* the size-0 match operations() pushes after the matching blocks
Sentinel(d) ==
    [startInOld |-> Len(d.oldWords), endInOld |-> Len(d.oldWords),
     startInNew |-> Len(d.newWords), endInNew |-> Len(d.newWords),
     size |-> 0]

\* the size-versus-gap test with the comparison inverted
IsNotOrphan_inverted(d, prev, curr, next) ==
    GreaterThanTimes(Max(SumLen(d.oldWords, prev.endInOld, next.startInOld),
                         SumLen(d.newWords, prev.endInNew, next.startInNew)),
                     SumLen(d.newWords, curr.startInNew, curr.endInNew),
                     [num |-> d.orphanMatchThreshold.den,
                      den |-> d.orphanMatchThreshold.num])

\* RemoveOrphans: whether curr passes the size-versus-gap test,
\* currMatchLengthInChars > Math.max(oldDistanceInChars, newDistanceInChars) * threshold
IsNotOrphan(d, prev, curr, next) ==
    GreaterThanTimes(SumLen(d.newWords, curr.startInNew, curr.endInNew),
                     Max(SumLen(d.oldWords, prev.endInOld, next.startInOld),
                         SumLen(d.newWords, prev.endInNew, next.startInNew)),
                     d.orphanMatchThreshold)

\* RemoveOrphans: curr is contiguous with prev, or with next, on both axes
IsContiguous(prev, curr, next) ==
    \/ prev.endInOld = curr.startInOld /\ prev.endInNew = curr.startInNew
    \/ curr.endInOld = next.startInOld /\ curr.endInNew = next.startInNew

\* RemoveOrphans: whether the loop body yields curr
IsYielded(d, prev, curr, next) ==
    IsContiguous(prev, curr, next) \/ IsNotOrphan(d, prev, curr, next)

\* RemoveOrphans: the loop body for one next; st holds prev, curr (NoMatch: null)
\* and the matches yielded so far
OrphanStep(d, st, next) ==
    IF st.curr = NoMatch THEN [st EXCEPT !.curr = next]
    ELSE [prev |-> st.curr, curr |-> next,
          out |-> IF IsYielded(d, st.prev, st.curr, next)
                  THEN Append(st.out, st.curr) ELSE st.out]

\* RemoveOrphans: the loop over matches, and the final yield of curr
RECURSIVE OrphanLoop(_, _, _, _)
OrphanLoop(d, ms, k, st) ==
    IF k > Len(ms) THEN Append(st.out, st.curr)
    ELSE OrphanLoop(d, ms, k + 1, OrphanStep(d, st, ms[k]))

\* the first match yielded without any test
RemoveOrphans_firstYielded(d, ms) ==
    LET r == OrphanLoop(d, ms, 1, [prev |-> Match(0, 0, 0), curr |-> NoMatch, out |-> <<>>])
    IN IF r[1] = ms[1] THEN r ELSE <<ms[1]>> \o r

RemoveOrphans(d, ms) ==
    OrphanLoop(d, ms, 1, [prev |-> Match(0, 0, 0), curr |-> NoMatch, out |-> <<>>])

\* operations(): the action for the gap before a match
GapAction(positionInOld, positionInNew, match) ==
    IF positionInOld # match.startInOld /\ positionInNew # match.startInNew
    THEN "Replace"
    ELSE IF positionInOld = match.startInOld /\ positionInNew # match.startInNew
    THEN "Insert"
    ELSE IF positionInOld # match.startInOld THEN "Delete"
    ELSE "None"

Operation(action, startInOld, endInOld, startInNew, endInNew) ==
    [action |-> action, startInOld |-> startInOld, endInOld |-> endInOld,
     startInNew |-> startInNew, endInNew |-> endInNew]

\* the gap operation with its new range started at the old position
WithGap_oldPosition(ops, action, positionInOld, positionInNew, match) ==
    IF action # "None"
    THEN Append(ops, Operation(action, positionInOld, match.startInOld,
                               positionInOld, match.startInNew))
    ELSE ops

\* operations(): the operation pushed for the gap before a match, if any
WithGap(ops, action, positionInOld, positionInNew, match) ==
    IF action # "None"
    THEN Append(ops, Operation(action, positionInOld, match.startInOld,
                               positionInNew, match.startInNew))
    ELSE ops

\* operations(): the Equal operation pushed for a match of size > 0
WithEqual(ops, match) ==
    IF match.size # 0
    THEN Append(ops, Operation("Equal", match.startInOld, match.endInOld,
                               match.startInNew, match.endInNew))
    ELSE ops

\* operations(): the loop over the matches without orphans
RECURSIVE OperationsLoop(_, _, _, _, _)
OperationsLoop(ms, k, positionInOld, positionInNew, ops) ==
    IF k > Len(ms) THEN ops
    ELSE OperationsLoop(ms, k + 1, ms[k].endInOld, ms[k].endInNew,
           WithEqual(WithGap(ops, GapAction(positionInOld, positionInNew, ms[k]),
                             positionInOld, positionInNew, ms[k]),
                     ms[k]))

\* operations(): matches, with the sentinel pushed
MatchesWithSentinel(d) == Append(matchingBlocks(d), Sentinel(d))

OperationsOf(ms) == OperationsLoop(ms, 1, 0, 0, <<>>)

operations(d) == OperationsOf(RemoveOrphans(d, MatchesWithSentinel(d)))

\* ------------------------------------------------------------------------
\* index.ts: HtmlDiff, the renderer
\* ------------------------------------------------------------------------

\* HtmlDiff.DelTag, HtmlDiff.InsTag
DelTag == <<"d","e","l">>
InsTag == <<"i","n","s">>

DiffDel == <<"d","i","f","f","d","e","l">>
DiffIns == <<"d","i","f","f","i","n","s">>
DiffMod == <<"d","i","f","f","m","o","d">>

\* "<ins class='mod'>" and "</ins>", the special case tag injections
InjectionOpen == <<"<","i","n","s"," ","c","l","a","s","s","=","'","m","o","d","'",">">>
InjectionClose == <<"<","/","i","n","s",">">>

\* the least member of a set of indices, -1 (undefined) when there is none
FirstIndex(S) == IF S = {} THEN -1 ELSE CHOOSE i \in S : \A j \in S : i <= j

\* extractConsecutiveWords: if (i === 0 && word === " ") words[i] = "&nbsp;"
RewriteLeadingSpace(words) ==
    IF Len(words) > 0 /\ words[1] = <<" ">> THEN [words EXCEPT ![1] = Nbsp] ELSE words

\* extractConsecutiveWords: the slice and the splice, at indexOfFirstTag
ExtractAt(words, indexOfFirstTag) ==
    IF indexOfFirstTag # -1
    THEN [items |-> Slice(words, 0, indexOfFirstTag),
          words |-> Slice(words, indexOfFirstTag, Len(words))]
    ELSE [items |-> words, words |-> <<>>]

\* extractConsecutiveWords(words, condition): the items it returns and the words
\* it leaves (its argument, mutated). The loop stops at the first word that
\* fails the condition, tested as read, before words[0] is rewritten. The
\* condition is a function from the words to BOOLEAN.
extractConsecutiveWords(words, condition) ==
    ExtractAt(RewriteLeadingSpace(words),
              FirstIndex({ i \in 0..(Len(words) - 1) : ~condition[words[i + 1]] }))

\* the condition InsertTag passes for its nonTags, (x) => isTag(x), on the words
NonTagsCondition(words) == [x \in {words[i] : i \in DOMAIN words} |-> isTag(x)]

\* the condition InsertTag passes for its tags, isTag, on the words
TagsCondition(words) == [x \in {words[i] : i \in DOMAIN words} |-> isTag(x)]

\* while (words.length > 0 && SPECIAL_CASE_OPENING_TAG_REGEX.test(words[0])) words.shift()
RECURSIVE ShiftOpeningTags(_)
ShiftOpeningTags(words) ==
    IF Len(words) > 0 /\ SPECIAL_CASE_OPENING_TAG_REGEX(words[1])
    THEN ShiftOpeningTags(Tail(words)) ELSE words

\* while (words.length > 0 && SPECIAL_CASE_CLOSING_TAGS.hasOwnProperty(words[0])) words.shift()
RECURSIVE ShiftClosingTags(_)
ShiftClosingTags(words) ==
    IF Len(words) > 0 /\ SPECIAL_CASE_CLOSING_TAGS(words[1])
    THEN ShiftClosingTags(Tail(words)) ELSE words

\* InsertTag: the last push of an iteration, e the tags extracted for it
PushTags(e, content1, stack1, specialCaseTagInjection, specialCaseTagInjectionIsBefore) ==
    [words |-> e.words,
     content |-> Append(content1,
                   IF specialCaseTagInjectionIsBefore
                   THEN specialCaseTagInjection \o Join(e.items)
                   ELSE Join(e.items) \o specialCaseTagInjection),
     stack |-> stack1,
     break |-> FALSE]

\* InsertTag: from if (!words.length && !specialCaseTagInjection) break; on
IterationEnd(w2, content1, stack1, specialCaseTagInjection, isBefore) ==
    IF Len(w2) = 0 /\ specialCaseTagInjection = <<>>
    THEN [words |-> w2, content |-> content1, stack |-> stack1, break |-> TRUE]
    ELSE PushTags(extractConsecutiveWords(w2, TagsCondition(w2)), content1, stack1,
                  specialCaseTagInjection, isBefore)

\* InsertTag: hasOpeningTag && openingAndClosingTagsMatch, the popped opening
\* tag being the top of the stack (null when the stack is empty)
ClosesOpeningTag(stack0, w1) ==
    /\ Len(stack0) # 0
    /\ getTagName(stack0[Len(stack0)]) = getTagName(w1[Len(w1)])

\* InsertTag: the branch of a special case opening tag at words[0]
OpeningBranch(tagName, w1, content0, stack0) ==
    IterationEnd(IF tagName = DelTag THEN ShiftOpeningTags(Tail(w1)) ELSE w1,
                 content0, Append(stack0, w1[1]),
                 InjectionOpen, FALSE)

\* InsertTag: the branch of a special case closing tag at words[0]
ClosingBranch(tagName, w1, content0, stack0, closes) ==
    IterationEnd(IF tagName = DelTag THEN ShiftClosingTags(Tail(w1)) ELSE w1,
                 content0,
                 IF Len(stack0) # 0 THEN SubSeq(stack0, 1, Len(stack0) - 1) ELSE stack0,
                 IF closes THEN InjectionClose ELSE <<>>,
                 closes)

\* InsertTag: the loop body after nonTags was extracted (e1)
AfterNonTags(tagName, css, e1, content0, stack0) ==
    IF Len(e1.items) # 0
    THEN IterationEnd(e1.words,
                      Append(content0, wrapText(Join(e1.items), tagName, css)),
                      stack0, <<>>, FALSE)
    ELSE IF SPECIAL_CASE_OPENING_TAG_REGEX(e1.words[1])
    THEN OpeningBranch(tagName, e1.words, content0, stack0)
    ELSE IF SPECIAL_CASE_CLOSING_TAGS(e1.words[1])
    THEN ClosingBranch(tagName, e1.words, content0, stack0,
                       ClosesOpeningTag(stack0, e1.words))
    ELSE IterationEnd(e1.words, content0, stack0, <<>>, FALSE)

\* One iteration of the while loop of InsertTag. Returns the words, the content
\* and the special tag stack after it, and whether it left the loop by `break`.
InsertTagIteration(tagName, css, words0, content0, stack0) ==
    AfterNonTags(tagName, css, extractConsecutiveWords(words0, NonTagsCondition(words0)),
                 content0, stack0)

\* ------------------------------------------------------------------------
\* Inputs
\* ------------------------------------------------------------------------

\* every sequence over S of length at most n
RECURSIVE SeqsUpTo(_, _)
SeqsUpTo(S, n) ==
    IF n = 0 THEN {<<>>}
    ELSE LET shorter == SeqsUpTo(S, n - 1)
         IN shorter \cup { Append(q, x) : q \in { r \in shorter : Len(r) = n - 1 }, x \in S }

\* the documents build() is run on: "", "cat", "dog", "<p>Hello world</p>",
\* "<p>Hello there world</p>", "<b>Hello</b> world", "Hello world", "<p>", "<i>",
\* "<b " (a tag left open at the end of the input), "a{{n}}", "{{n}} b"
Doc_empty == <<>>
Doc_cat == <<"c","a","t">>
Doc_dog == <<"d","o","g">>
Doc_HelloWorldP == <<"<","p",">","H","e","l","l","o"," ","w","o","r","l","d","<","/","p",">">>
Doc_HelloThereWorldP == <<"<","p",">","H","e","l","l","o"," ","t","h","e","r","e"," ","w","o","r","l","d","<","/","p",">">>
Doc_BoldHelloWorld == <<"<","b",">","H","e","l","l","o","<","/","b",">"," ","w","o","r","l","d">>
Doc_HelloWorld == <<"H","e","l","l","o"," ","w","o","r","l","d">>
Doc_P == <<"<","p",">">>
Doc_I == <<"<","i",">">>
Doc_OpenB == <<"<","b"," ">>
Doc_WordName == <<"a","{","{","n","}","}">>
Doc_NameB == <<"{","{","n","}","}"," ","b">>

Docs == { Doc_empty, Doc_cat, Doc_dog, Doc_HelloWorldP, Doc_HelloThereWorldP, Doc_BoldHelloWorld, Doc_HelloWorld, Doc_P, Doc_I, Doc_OpenB, Doc_WordName, Doc_NameB }

\* the atomic patterns (block expressions), each a global expression matching a
\* literal: /\{\{n\}\}/g and /n\}\}/g
Pat_Name == <<"{","{","n","}","}">>
Pat_NameTail == <<"n","}","}">>

\* the lists AddBlockExpression has built: none, one pattern, two patterns whose
\* spans overlap wherever {{n}} occurs
BlockExpressionChoices == { <<>>, <<Pat_Name>>, <<Pat_Name, Pat_NameTail>> }

\* the values of repeatingWordsAccuracy and orphanMatchThreshold: 0, 1/2, 1
Fractions == { Frac(0, 1), Frac(1, 2), Frac(1, 1) }

\* the longest output buffer (content.length) the renderer is followed to
MaxContent == 6

\* the tokens of the matcher's inputs: ".", "," and "<i x>" (a tag with an
\* attribute, five characters long)
MatchTokens == { <<".">>, <<",">>, <<"<","i"," ","x",">">> }

\* the longest old and new token sequences of the matcher's inputs
MaxOldWords == 3
MaxNewWords == 3

\* the longest token sequences a MatchFinder is called on directly
MaxFinderWords == 3

\* the pieces the tokenizer's inputs are concatenated from:
\* a . space < > & ; &nbsp; and the atomic literal {}
SplitPieces == { <<"a">>, <<".">>, <<" ">>, <<"<">>, <<">">>, <<"&">>, <<";">>, Nbsp,
                 <<"{","}">> }

\* the most pieces in a tokenizer input
MaxPieces == 4

Pat_Braces == <<"{","}">>

SplitExpressionChoices == { <<>>, <<Pat_Braces>> }

\* ------------------------------------------------------------------------
\* State
\* ------------------------------------------------------------------------

VARIABLES
    oldHtml, newHtml,             \* the arguments of the constructor
    blockExpressions,             \* HtmlDiff.blockExpressions
    repeatingWordsAccuracy,       \* HtmlDiff.repeatingWordsAccuracy
    orphanMatchThreshold,         \* HtmlDiff.orphanMatchThreshold
    ignoreWhitespaceDifferences,  \* HtmlDiff.ignoreWhitespaceDifferences
    oldText, newText,             \* HtmlDiff.oldText, newText
    oldWords, newWords,           \* HtmlDiff.oldWords, newWords
    matchGranularity,             \* HtmlDiff.matchGranularity
    content,                      \* HtmlDiff.content
    specialTagDiffStack,          \* HtmlDiff.specialTagDiffStack
    pc,                           \* where build() (or process()) stands
    matches, kept,                \* operations(): matches, mathesWithoutOrphans
    operationList, opIndex,       \* build(): operations and the loop over them
    words, tag, cssClass,         \* InsertTag: its arguments
    replacePending,               \* processReplaceOperation: the insert is still to do
    result,                       \* what build() returned
    finder, found,                \* a MatchFinder and what its findMatch() returned
    wordIndices,                  \* MatchFinder._wordIndices after findMatch()
    splitter, index               \* a WordSplitter and the loop index of process()

configVars == <<oldHtml, newHtml, blockExpressions, repeatingWordsAccuracy,
                orphanMatchThreshold, ignoreWhitespaceDifferences>>
textVars == <<oldText, newText, oldWords, newWords>>
matchVars == <<matchGranularity, matches, kept, operationList>>
renderVars == <<content, specialTagDiffStack, opIndex, words, tag, cssClass,
                replacePending>>
probeVars == <<finder, found, wordIndices, splitter, index>>

vars == <<configVars, textVars, matchVars, renderVars, probeVars, pc, result>>

\* the HtmlDiff the matcher reads
This == Differ(oldWords, newWords, matchGranularity, repeatingWordsAccuracy,
               ignoreWhitespaceDifferences, orphanMatchThreshold)

\* the fields as the constructor and the field initialisers leave them
Constructed ==
    /\ oldText = oldHtml
    /\ newText = newHtml
    /\ oldWords = <<>>
    /\ newWords = <<>>
    /\ matchGranularity = 4
    /\ content = <<>>
    /\ specialTagDiffStack = <<>>

\* the locals, before the code that sets them has run
NoLocals ==
    /\ matches = <<>>
    /\ kept = <<>>
    /\ operationList = <<>>
    /\ opIndex = 0
    /\ words = <<>>
    /\ tag = <<>>
    /\ cssClass = <<>>
    /\ replacePending = FALSE
    /\ result = <<>>

NoFinder == finder = NoMatch /\ found = NoMatch /\ wordIndices = <<>>
NoSplitter == splitter = NewSplitter(<<>>, <<>>) /\ index = 0

\* new HtmlDiff(oldHtml, newHtml), its block expressions added and its public
\* fields set, about to run build()
Init ==
    /\ oldHtml \in Docs
    /\ newHtml \in Docs
    /\ blockExpressions \in BlockExpressionChoices
    /\ repeatingWordsAccuracy \in Fractions
    /\ orphanMatchThreshold \in Fractions
    /\ ignoreWhitespaceDifferences \in BOOLEAN
    /\ Constructed
    /\ NoLocals
    /\ NoFinder
    /\ NoSplitter
    /\ pc = "build"

\* ------------------------------------------------------------------------
\* build()
\* ------------------------------------------------------------------------

\* the comparison inverted
IsFastPath_inverted(o, n) == o # n

\* build(): if (this.oldText === this.newText)
IsFastPath(o, n) == o = n

\* build(): return this.newText
BuildFastPath ==
    /\ pc = "build"
    /\ IsFastPath(oldText, newText)
    /\ result' = newText
    /\ pc' = "returned"
    /\ UNCHANGED <<configVars, textVars, matchVars, renderVars, probeVars>>

\* new WordSplitter(text, blockExpressions).process(); threw when the
\* constructor's findBlocksToBeGrouped throws
SplitToWords(text, expressions) ==
    LET blocks == findBlocksToBeGrouped(text, expressions) IN
    IF blocks.threw THEN [threw |-> TRUE, words |-> <<>>]
    ELSE [threw |-> FALSE, words |-> process(NewSplitter(text, blocks.map))]

\* build(): this.splitInputsToWords()
BuildSplit ==
    /\ pc = "build"
    /\ ~IsFastPath(oldText, newText)
    /\ LET o == SplitToWords(oldText, blockExpressions)
           n == SplitToWords(newText, blockExpressions)
       IN IF o.threw
          THEN /\ pc' = "threw"
               /\ UNCHANGED textVars
          ELSE IF n.threw
          THEN /\ pc' = "threw"
               /\ oldWords' = o.words
               /\ oldText' = <<>>
               /\ UNCHANGED <<newText, newWords>>
          ELSE /\ pc' = "split"
               /\ oldWords' = o.words
               /\ oldText' = <<>>
               /\ newWords' = n.words
               /\ newText' = <<>>
    /\ UNCHANGED <<configVars, matchVars, renderVars, probeVars, result>>

\* build(): matchGranularity and const operations = this.operations()
BuildOperations ==
    /\ pc = "split"
    /\ matchGranularity' = Granularity(oldWords, newWords)
    /\ matches' = MatchesWithSentinel([This EXCEPT !.matchGranularity = matchGranularity'])
    /\ kept' = RemoveOrphans(This, matches')
    /\ operationList' = OperationsOf(kept')
    /\ opIndex' = 0
    /\ pc' = "perform"
    /\ UNCHANGED <<configVars, textVars, content, specialTagDiffStack, words, tag,
                   cssClass, replacePending, probeVars, result>>

\* this.InsertTag(tagName, css, text) is entered
EnterInsertTag(tagName, css, text) ==
    /\ tag' = tagName
    /\ cssClass' = css
    /\ words' = text
    /\ pc' = IF Len(text) > 0 THEN "InsertTag" ELSE "InsertTagDone"

\* build(): performOperation(operation), up to the InsertTag it enters
PerformOperation ==
    /\ pc = "perform"
    /\ opIndex < Len(operationList)
    /\ LET operation == operationList[opIndex + 1]
           oldRun == Slice(oldWords, operation.startInOld, operation.endInOld)
           newRun == Slice(newWords, operation.startInNew, operation.endInNew)
       IN CASE operation.action = "Equal" ->
                 /\ content' = Append(content, Join(newRun))
                 /\ opIndex' = opIndex + 1
                 /\ UNCHANGED <<words, tag, cssClass, replacePending, pc>>
            [] operation.action = "Delete" ->
                 /\ EnterInsertTag(DelTag, DiffDel, oldRun)
                 /\ replacePending' = FALSE
                 /\ UNCHANGED <<content, opIndex>>
            [] operation.action = "Insert" ->
                 /\ EnterInsertTag(InsTag, DiffIns, newRun)
                 /\ replacePending' = FALSE
                 /\ UNCHANGED <<content, opIndex>>
            [] operation.action = "Replace" ->
                 /\ EnterInsertTag(DelTag, DiffMod, oldRun)
                 /\ replacePending' = TRUE
                 /\ UNCHANGED <<content, opIndex>>
    /\ UNCHANGED <<configVars, textVars, matchVars, specialTagDiffStack, probeVars,
                   result>>

\* InsertTag: one iteration of while (words.length > 0), and the test that follows it
InsertTagStep ==
    /\ pc = "InsertTag"
    /\ Len(content) < MaxContent
    /\ LET r == InsertTagIteration(tag, cssClass, words, content, specialTagDiffStack) IN
       /\ words' = r.words
       /\ content' = r.content
       /\ specialTagDiffStack' = r.stack
       /\ pc' = IF r.break \/ Len(r.words) = 0 THEN "InsertTagDone" ELSE "InsertTag"
    /\ UNCHANGED <<configVars, textVars, matchVars, opIndex, tag, cssClass,
                   replacePending, probeVars, result>>

\* InsertTag returns: to processReplaceOperation, which inserts, or to the loop
\* of build()
ReturnFromInsertTag ==
    /\ pc = "InsertTagDone"
    /\ IF replacePending
       THEN LET operation == operationList[opIndex + 1] IN
            /\ EnterInsertTag(InsTag, DiffMod,
                              Slice(newWords, operation.startInNew, operation.endInNew))
            /\ replacePending' = FALSE
            /\ UNCHANGED opIndex
       ELSE /\ opIndex' = opIndex + 1
            /\ pc' = "perform"
            /\ UNCHANGED <<words, tag, cssClass, replacePending>>
    /\ UNCHANGED <<configVars, textVars, matchVars, content, specialTagDiffStack,
                   probeVars, result>>

\* build(): return this.content.join("")
BuildReturn ==
    /\ pc = "perform"
    /\ opIndex = Len(operationList)
    /\ result' = Join(content)
    /\ pc' = "returned"
    /\ UNCHANGED <<configVars, textVars, matchVars, renderVars, probeVars>>

Next ==
    \/ BuildFastPath
    \/ BuildSplit
    \/ BuildOperations
    \/ PerformOperation
    \/ InsertTagStep
    \/ ReturnFromInsertTag
    \/ BuildReturn

Spec == Init /\ [][Next]_vars

\* ------------------------------------------------------------------------
\* WordSplitter.process(), character by character
\* ------------------------------------------------------------------------

\* the texts the splitter is run on: every concatenation of at most MaxPieces pieces
SplitTexts == { Join(ps) : ps \in SeqsUpTo(SplitPieces, MaxPieces) }

\* build() is in splitInputsToWords: new WordSplitter(oldText, blockExpressions)
\* is constructed and process() is about to run
InitSplit ==
    /\ oldHtml \in SplitTexts
    /\ newHtml = <<>>
    /\ oldHtml # newHtml
    /\ blockExpressions \in SplitExpressionChoices
    /\ repeatingWordsAccuracy = Frac(1, 1)
    /\ orphanMatchThreshold = Frac(0, 1)
    /\ ignoreWhitespaceDifferences = TRUE
    /\ Constructed
    /\ NoLocals
    /\ NoFinder
    /\ splitter = NewSplitter(oldHtml, findBlocksToBeGrouped(oldHtml, blockExpressions).map)
    /\ index = 0
    /\ pc = "process"

\* process(): this.processCharacter(index, character) and index++
SplitterStep ==
    /\ pc = "process"
    /\ index < Len(splitter.text)
    /\ splitter' = processCharacter(splitter, index, splitter.text[index + 1])
    /\ index' = index + 1
    /\ UNCHANGED <<configVars, textVars, matchVars, renderVars, finder, found, wordIndices, pc,
                   result>>

\* process(): this.appendCurrentWordToWords(); return this.words
SplitterReturn ==
    /\ pc = "process"
    /\ index = Len(splitter.text)
    /\ splitter' = appendCurrentWordToWords(splitter)
    /\ pc' = "processed"
    /\ UNCHANGED <<configVars, textVars, matchVars, renderVars, finder, found, wordIndices,
                   index, result>>

NextSplit == SplitterStep \/ SplitterReturn

SpecSplit == InitSplit /\ [][NextSplit]_vars

\* ------------------------------------------------------------------------
\* operations() and MatchFinder.findMatch() on token sequences
\* ------------------------------------------------------------------------

\* the token sequences of at most n tokens that the splitter produces (each is
\* what process() returns for its own concatenation)
WordSeqs(n) ==
    { ws \in SeqsUpTo(MatchTokens, n) : SplitToWords(Join(ws), <<>>).words = ws }

\* build() after splitInputsToWords(), for two different documents
InitMatch ==
    /\ oldWords \in WordSeqs(MaxOldWords)
    /\ newWords \in WordSeqs(MaxNewWords)
    /\ oldWords # newWords
    /\ oldHtml = Join(oldWords)
    /\ newHtml = Join(newWords)
    /\ blockExpressions = <<>>
    /\ repeatingWordsAccuracy \in Fractions
    /\ orphanMatchThreshold \in Fractions
    /\ ignoreWhitespaceDifferences = TRUE
    /\ oldText = <<>>
    /\ newText = <<>>
    /\ matchGranularity = 4
    /\ content = <<>>
    /\ specialTagDiffStack = <<>>
    /\ NoLocals
    /\ NoFinder
    /\ NoSplitter
    /\ pc = "split"

NextMatch == BuildOperations

SpecMatch == InitMatch /\ [][NextMatch]_vars

\* as InitMatch, for the sequences a finder is called on directly
InitFinder ==
    /\ InitMatch
    /\ Len(oldWords) <= MaxFinderWords
    /\ Len(newWords) <= MaxFinderWords
    /\ orphanMatchThreshold = Frac(0, 1)

\* new MatchFinder(...).findMatch() for a block size and a non-empty range of each
\* sequence
FinderCall ==
    /\ pc = "split"
    /\ \E blockSize \in 1..MAX_MATCH_GRANULARITY :
       \E startInOld \in 0..(Len(oldWords) - 1), startInNew \in 0..(Len(newWords) - 1) :
       \E endInOld \in (startInOld + 1)..Len(oldWords),
          endInNew \in (startInNew + 1)..Len(newWords) :
          /\ finder' = MatchFinder(oldWords, newWords, startInOld, endInOld,
                                   startInNew, endInNew, FinderOptions(This, blockSize))
          /\ found' = FinderFindMatch(finder')
          /\ wordIndices' = removeRepeatingWords(finder', indexNewWords(finder'))
    /\ pc' = "found"
    /\ UNCHANGED <<configVars, textVars, matchVars, renderVars, splitter, index, result>>

NextFinder == FinderCall

SpecFinder == InitFinder /\ [][NextFinder]_vars

\* ------------------------------------------------------------------------
\* Properties
\* ------------------------------------------------------------------------

\* p occurs somewhere in s
Contains(s, p) == \E i \in 0..Len(s) : OccursAt(s, p, i)

\* the operation build() is performing
CurrentOperation == operationList[opIndex + 1]

\* the run of tokens InsertTag was entered with for the current operation: the
\* old run for the deletion pass, the new run for the insertion pass
CurrentRun ==
    IF tag = DelTag
    THEN Slice(oldWords, CurrentOperation.startInOld, CurrentOperation.endInOld)
    ELSE Slice(newWords, CurrentOperation.startInNew, CurrentOperation.endInNew)

\* C1: when the two inputs are the same string, build() returns that string
\* through the fast path: it goes from its start straight to its return, and the
\* word lists, the matches, the operations and the output buffer stay empty.
C1_FastPathIdentity ==
    oldHtml = newHtml =>
        /\ pc \in {"build", "returned"}
        /\ oldWords = <<>> /\ newWords = <<>>
        /\ matches = <<>> /\ kept = <<>> /\ operationList = <<>>
        /\ content = <<>>
        /\ (pc = "returned" => result = oldHtml)

\* build() has returned for two identical non-empty documents
C1_Witness == pc = "returned" /\ oldHtml = newHtml /\ Len(oldHtml) > 0

\* C2: every iteration of the loop of InsertTag removes at least one token from
\* the run it renders.
C2_IterationConsumesToken ==
    [][pc = "InsertTag" => Len(words') < Len(words)]_vars

\* C3: once operations() has returned, its operations read in order partition
\* both index spaces: each range lies in [0, len], the ranges are in order, and
\* every old index and every new index is covered by exactly one operation.
C3_OperationsPartition ==
    pc = "perform" =>
        /\ \A k \in DOMAIN operationList :
              /\ 0 <= operationList[k].startInOld
              /\ operationList[k].startInOld <= operationList[k].endInOld
              /\ operationList[k].endInOld <= Len(oldWords)
              /\ 0 <= operationList[k].startInNew
              /\ operationList[k].startInNew <= operationList[k].endInNew
              /\ operationList[k].endInNew <= Len(newWords)
        /\ \A k \in 1..(Len(operationList) - 1) :
              /\ operationList[k].endInOld = operationList[k + 1].startInOld
              /\ operationList[k].endInNew = operationList[k + 1].startInNew
        /\ \A i \in 0..(Len(oldWords) - 1) :
              Cardinality({k \in DOMAIN operationList :
                  operationList[k].startInOld <= i /\ i < operationList[k].endInOld}) = 1
        /\ \A i \in 0..(Len(newWords) - 1) :
              Cardinality({k \in DOMAIN operationList :
                  operationList[k].startInNew <= i /\ i < operationList[k].endInNew}) = 1

\* operations() has returned an Equal operation and an operation of another
\* kind, with an orphan match removed
C3_Witness ==
    /\ pc = "perform"
    /\ Len(operationList) >= 2
    /\ \E k \in DOMAIN operationList : operationList[k].action = "Equal"
    /\ \E k \in DOMAIN operationList : operationList[k].action # "Equal"
    /\ Len(kept) < Len(matches)

\* C4: when InsertTag is entered with a run of non-tag tokens only, it appends
\* exactly one marker wrapping the concatenated run and returns; the marker is
\* del for the old run and ins for the new run, with class diffdel for a Delete,
\* diffins for an Insert and diffmod for a Replace.
C4_NonTagRunIsOneMarker ==
    [][(/\ pc = "InsertTag"
        /\ words = CurrentRun
        /\ \A k \in DOMAIN words : ~isTag(words[k]))
       => /\ (CurrentOperation.action = "Delete" => tag = DelTag)
          /\ (CurrentOperation.action = "Insert" => tag = InsTag)
          /\ content' = Append(content,
                 wrapText(Join(RewriteLeadingSpace(words)), tag,
                          IF CurrentOperation.action = "Replace" THEN DiffMod
                          ELSE IF tag = DelTag THEN DiffDel ELSE DiffIns))
          /\ pc' = "InsertTagDone"]_vars

\* C5: during a deletion pass, when the run starts with a recognized formatting
\* opening or closing tag, the iteration appends no deletion marker that
\* contains that tag.
C5_DeletedFormattingTagDiscarded ==
    [][(/\ pc = "InsertTag"
        /\ tag = DelTag
        /\ \/ SPECIAL_CASE_OPENING_TAG_REGEX(words[1])
           \/ SPECIAL_CASE_CLOSING_TAGS(words[1]))
       => \A k \in (Len(content) + 1)..Len(content') :
             ~(/\ StartsWith(content'[k], <<"<">> \o DelTag)
               /\ Contains(content'[k], words[1]))]_vars

\* C6: a match returned by MatchFinder.findMatch is a run of value-equal
\* tokens: for every k below its size, the old token at startInOld + k and the
\* new token at startInNew + k are equal after normalization.
C6_MatchIsValueEqual ==
    (pc = "found" /\ found # NoMatch) =>
        \A k \in 0..(found.size - 1) :
            normalizeForIndexing(finder.options, oldWords[found.startInOld + k + 1])
            = normalizeForIndexing(finder.options, newWords[found.startInNew + k + 1])

\* whether a match lies inside the ranges that were searched
InRange(m, startInOld, endInOld, startInNew, endInNew) ==
    /\ m.size >= 1
    /\ startInOld <= m.startInOld /\ m.startInOld + m.size <= endInOld
    /\ startInNew <= m.startInNew /\ m.startInNew + m.size <= endInNew
    /\ m.endInOld = m.startInOld + m.size
    /\ m.endInNew = m.startInNew + m.size

\* whether every match found by findMatchingBlocks for a range, and for the ranges
\* it recurses into, lies inside the range it was found for
RECURSIVE FoundInRange(_, _, _, _, _)
FoundInRange(d, startInOld, endInOld, startInNew, endInNew) ==
    LET m == findMatch(d, startInOld, endInOld, startInNew, endInNew) IN
    \/ m = NoMatch
    \/ /\ InRange(m, startInOld, endInOld, startInNew, endInNew)
       /\ (startInOld < m.startInOld /\ startInNew < m.startInNew
             => FoundInRange(d, startInOld, m.startInOld, startInNew, m.startInNew))
       /\ (m.endInOld < endInOld /\ m.endInNew < endInNew
             => FoundInRange(d, m.endInOld, endInOld, m.endInNew, endInNew))

\* whether a list of matches is ordered and non-overlapping in both index spaces
Ordered(ms) ==
    \A k \in 1..(Len(ms) - 1) :
        /\ ms[k].endInOld <= ms[k + 1].startInOld
        /\ ms[k].endInNew <= ms[k + 1].startInNew

\* C7: the matches of matchingBlocks() followed by the sentinel, and the matches
\* RemoveOrphans keeps, are ordered and non-overlapping in both index spaces,
\* and every match found for a range lies entirely inside that range.
C7_MatchesOrderedInRange ==
    pc = "perform" =>
        /\ Ordered(matches)
        /\ Ordered(kept)
        /\ FoundInRange(This, 0, Len(oldWords), 0, Len(newWords))

\* two matches separated by a gap were found before the sentinel, and one match
\* was removed as an orphan
C7_Witness ==
    /\ pc = "perform"
    /\ Len(matches) >= 3
    /\ \/ matches[1].endInOld < matches[2].startInOld
       \/ matches[1].endInNew < matches[2].startInNew
    /\ Len(kept) < Len(matches)

\* whether two spans of the block expressions overlap in the text
SpansOverlap(text, expressions) ==
    \E i, j \in DOMAIN expressions :
       /\ i < j
       /\ \E a \in DOMAIN MatchAll(text, expressions[i]),
             b \in DOMAIN MatchAll(text, expressions[j]) :
             LET from1 == MatchAll(text, expressions[i])[a]
                 from2 == MatchAll(text, expressions[j])[b]
             IN /\ from1 < from2 + Len(expressions[j])
                /\ from2 < from1 + Len(expressions[i])

\* C8: when two spans of the block expressions overlap in an input, build()
\* throws while it tokenizes: it never gets past tokenization and returns
\* nothing.
C8_OverlapThrows ==
    (/\ oldHtml # newHtml
     /\ SpansOverlap(oldHtml, blockExpressions) \/ SpansOverlap(newHtml, blockExpressions))
    => pc \in {"build", "threw"}

\* C9: when process() has returned, every span of a block expression is one
\* token: a token starts where the span starts and its text is exactly the span.
C9_SpanIsOneToken ==
    pc = "processed" =>
        \A from \in DOMAIN splitter.blockLocations :
           \E k \in DOMAIN splitter.words :
              /\ SumLen(splitter.words, 0, k - 1) = from
              /\ splitter.words[k] = Slice(splitter.text, from, splitter.blockLocations[from])

\* whether the k-th match is an interior match, contiguous on both axes with
\* neither its predecessor nor its successor
InteriorNonContiguous(ms, k) ==
    /\ 1 < k /\ k < Len(ms)
    /\ ~(ms[k - 1].endInOld = ms[k].startInOld /\ ms[k - 1].endInNew = ms[k].startInNew)
    /\ ~(ms[k].endInOld = ms[k + 1].startInOld /\ ms[k].endInNew = ms[k + 1].startInNew)

\* C10: with orphanMatchThreshold = 0 RemoveOrphans yields every match it is
\* given; with orphanMatchThreshold = 1 it yields no interior match that is
\* contiguous with neither its predecessor nor its successor.
C10_OrphanThresholdBoundaries ==
    pc = "perform" =>
        /\ (orphanMatchThreshold = Frac(0, 1) => kept = matches)
        /\ (orphanMatchThreshold = Frac(1, 1) =>
              \A k \in DOMAIN matches :
                 InteriorNonContiguous(matches, k) =>
                    \A j \in DOMAIN kept : kept[j] # matches[k])

\* RemoveOrphans was run with threshold 1 on a list with an interior match
\* contiguous with neither neighbour
C10_Witness ==
    /\ pc = "perform"
    /\ orphanMatchThreshold = Frac(1, 1)
    /\ \E k \in DOMAIN matches : InteriorNonContiguous(matches, k)

\* C11 as stated: RemoveOrphans always yields the first match of the list and
\* the last one (the sentinel), whatever the threshold.
C11_FirstAndLastAlwaysYielded ==
    pc = "perform" =>
        /\ kept[1] = matches[1]
        /\ kept[Len(kept)] = matches[Len(matches)]

\* C11 amended: RemoveOrphans always yields the last match of the list (the
\* sentinel); the first match, when it is not also the last, is tested like
\* any other, with the position (0,0) as its predecessor: it is yielded exactly
\* when it starts at (0,0), or it ends where the second match starts on both
\* axes, or its length in characters in the new document, times the
\* denominator of the threshold, exceeds the larger of the old and new
\* distances in characters from position 0 to the second match, times the
\* numerator.
C11_FirstIsTestedLastIsYielded ==
    pc = "perform" =>
        /\ kept[Len(kept)] = matches[Len(matches)]
        /\ Len(matches) >= 2 =>
             ((kept[1] = matches[1])
              <=> \/ matches[1].startInOld = 0 /\ matches[1].startInNew = 0
                  \/ /\ matches[1].endInOld = matches[2].startInOld
                     /\ matches[1].endInNew = matches[2].startInNew
                  \/ SumLen(newWords, matches[1].startInNew, matches[1].endInNew)
                        * orphanMatchThreshold.den
                     > Max(SumLen(oldWords, 0, matches[2].startInOld),
                           SumLen(newWords, 0, matches[2].startInNew))
                        * orphanMatchThreshold.num)

\* RemoveOrphans was given a first match that does not start at (0,0), and did
\* not yield it
C11_Witness ==
    /\ pc = "perform"
    /\ Len(matches) >= 2
    /\ ~(matches[1].startInOld = 0 /\ matches[1].startInNew = 0)
    /\ kept[1] # matches[1]

\* the key of the window of blockSize new words that ends at index i: the
\* normalized words, concatenated
WindowKey(f, i) ==
    Join([k \in 1..f.options.blockSize |->
            normalizeForIndexing(f.options, f.newWords[i - f.options.blockSize + k + 1])])

\* the new indices at which a whole window of the range of the finder ends
WindowEnds(f) == (f.startInNew + f.options.blockSize - 1)..(f.endInNew - 1)

\* the number of occurrences of a key in the new range of the finder
Occurrences(f, key) == Cardinality({i \in WindowEnds(f) : WindowKey(f, i) = key})

\* C12: after findMatch() has indexed the new range, a window key of the range
\* is absent from the index if and only if its number of occurrences in the
\* range exceeds (endInNew - startInNew) * repeatingWordsAccuracy.
C12_RepeatThresholdUsesRangeLength ==
    pc = "found" =>
        \A i \in WindowEnds(finder) :
            (WindowKey(finder, i) \notin DOMAIN wordIndices)
            <=> Occurrences(finder, WindowKey(finder, i))
                   * finder.options.repeatingWordsAccuracy.den
                > (finder.endInNew - finder.startInNew)
                   * finder.options.repeatingWordsAccuracy.num

\* C13: process() returns a partition of its input: no token is the empty
\* string and the tokens concatenated in order are the input; while it runs,
\* the tokens so far followed by the current word are the characters read so
\* far, and no token is empty.
C13_TokensPartitionInput ==
    /\ pc \in {"process", "processed"} =>
          /\ \A k \in DOMAIN splitter.words : splitter.words[k] # <<>>
          /\ Join(splitter.words) \o splitter.currentWord
             = Slice(splitter.text, 0, index)
    /\ pc = "processed" =>
          /\ index = Len(splitter.text)
          /\ splitter.currentWord = <<>>
          /\ Join(splitter.words) = splitter.text

\* process() has returned for an input with an atomic span in which an
\* &nbsp; entity was merged back with the whitespace before it
C13_Witness ==
    /\ pc = "processed"
    /\ DOMAIN splitter.blockLocations # {}
    /\ Len(splitter.words) >= 2
    /\ \E k \in DOMAIN splitter.words : StartsWith(splitter.words[k], <<" ">> \o Nbsp)

====
